---------------------------- MODULE Spec2Model ----------------------------
(***************************************************************************)
(* ChessHireHub server: the interview session / message lifecycle.         *)
(*                                                                         *)
(* State: the four relational tables of server/db.ts (rows keep the        *)
(* AUTOINCREMENT id they were given, no row is ever deleted), the wall     *)
(* clock read by `new Date()`, the POST /messages requests that are        *)
(* suspended on the completion call.  The HTTP response of a handler is    *)
(* the value of its route operator (status and body); it is an output and  *)
(* no part of the state.  The read-only handlers (the GET routes) are      *)
(* modelled apart, in ResumeReadSpec, InterviewReadSpec and ExportSpec:    *)
(* files is the exports directory they write, served the responses they    *)
(* have sent; a download is sent in a step after the handler's.            *)
(*                                                                         *)
(* Atomicity: better-sqlite3 is synchronous, so a request handler runs     *)
(* without interleaving up to its first await on real I/O.  The only such  *)
(* await in the modelled handlers is openai.chat.completions.create, so    *)
(* every handler is one action except POST /messages, which is two.        *)
(***************************************************************************)
EXTENDS Integers, Sequences, FiniteSets, TLC

VARIABLES users, resumes, interviews, messages, parseJobs, pending, now,
          files, served

vars == <<users, resumes, interviews, messages, parseJobs, pending, now,
          files, served>>

---------------------------------------------------------------------------
(* Bounds of the model *)

MaxUsers == 2
MaxResumes == 1
MaxInterviews == 1
MaxMessages == 3
MaxPending == 1
MaxTime == 1

(* Input domains *)

(* E-mail addresses, numbered: address k is the one the k-th registered    *)
(* user signed up with.  A registration uses a registered address or the   *)
(* first unused one (the unused addresses are interchangeable).            *)
Emails == 1..MaxUsers
Roles == {"backend"}
Levels == {"intermediate"}
Personas == {"rook"}
Contents == {<<"I have 3 years of Go experience">>}
Replies == {<<"reply">>}

(* A NULL in an integer or timestamp column (resumeId, endedAt) *)
Null == 0 - 1

(* The parsedContent column: NULL, or the JSON text the parse job stores *)
NullText == "NULL"
ParsedJson == "{skills}"

(* The object the parse job stores, and a stored text that is no JSON *)
ParsedObject == "[object skills]"
BrokenJson == "{skills"

(* JSON.stringify: the text of the object; a string is quoted *)
JSONstringify(value) ==
    IF value = ParsedObject THEN ParsedJson ELSE "\"{skills\""

(* JSON.parse: the object, or <<>> when it throws a SyntaxError *)
JSONparse(text) ==
    IF text = ParsedJson THEN <<ParsedObject>> ELSE <<>>

---------------------------------------------------------------------------
(* Storage faults.  A better-sqlite3 statement can throw (disk full, I/O   *)
(* error, locked file).  A create* method runs two statements: the INSERT  *)
(* and the re-fetch of the inserted row.                                   *)

WriteFaults == {"ok", "stmt", "refetch"}
ReadFaults == {"ok", "err"}

---------------------------------------------------------------------------
(* Record access layer (server/storage.ts).  A read returns the row or     *)
(* undefined; undefined is the empty sequence, a found row a sequence of   *)
(* one.  A read swallows a storage fault and returns undefined / [].       *)

undefined == <<>>

getUser(id) ==
    IF id \in 1..Len(users) THEN <<users[id]>> ELSE undefined

getUserByEmail(email) ==
    IF \E i \in 1..Len(users) : users[i].email = email
    THEN <<users[CHOOSE i \in 1..Len(users) : users[i].email = email]>>
    ELSE undefined

(* storage.ts:111-117 and 132-138: a non-NULL parsedContent is replaced by *)
(* its JSON.parse; when the parse throws the row keeps the stored text     *)
parseResumeRow(resume) ==
    IF resume.parsedContent # NullText
          /\ JSONparse(resume.parsedContent) # <<>>
    THEN [resume EXCEPT !.parsedContent = JSONparse(resume.parsedContent)[1]]
    ELSE resume

(* getResume without the inner try: a parse that throws is caught by the   *)
(* outer catch, which returns undefined                                    *)
getResumeStrict(id, fault) ==
    IF fault = "ok" /\ id \in 1..Len(resumes)
          /\ (resumes[id].parsedContent # NullText
                => JSONparse(resumes[id].parsedContent) # <<>>)
    THEN <<parseResumeRow(resumes[id])>> ELSE undefined

getResume(id, fault) ==
    IF fault = "ok" /\ id \in 1..Len(resumes)
    THEN <<parseResumeRow(resumes[id])>> ELSE undefined

getInterview(id, fault) ==
    IF fault = "ok" /\ id \in 1..Len(interviews) THEN <<interviews[id]>>
    ELSE undefined

(* validateSession that lets every request pass *)
validateSessionAnyone(actor) == TRUE

(* routes.ts:59-69: the session names a user that exists *)
validateSession(actor) == getUser(actor) # undefined

createUser(email) ==
    [id |-> Len(users) + 1, email |-> email]

createResume(userId) ==
    [id |-> Len(resumes) + 1, userId |-> userId, uploadedAt |-> now,
     parsedContent |-> NullText]

updateResumeParsedContent(id, parsedContent) ==
    [resumes EXCEPT ![id].parsedContent = JSONstringify(parsedContent)]

createInterview(userId, resumeId, targetRole, experienceLevel, character) ==
    [id |-> Len(interviews) + 1,
     userId |-> userId,
     resumeId |-> IF resumeId > 0 THEN resumeId ELSE Null,
     targetRole |-> targetRole,
     experienceLevel |-> experienceLevel,
     startedAt |-> now,
     endedAt |-> Null,
     status |-> "in_progress",
     interviewerCharacter |-> character]

(* updateInterviewStatus with the endedAt column left out of the UPDATE *)
(* updateInterviewStatus whose UPDATE has no WHERE clause *)
updateInterviewStatusAllRows(id, status, endedAt) ==
    [k \in 1..Len(interviews) |->
        [interviews[k] EXCEPT !.status = status, !.endedAt = endedAt]]

updateInterviewStatusOnly(id, status, endedAt) ==
    [interviews EXCEPT ![id].status = status]

updateInterviewStatus(id, status, endedAt) ==
    IF endedAt # Null
    THEN [interviews EXCEPT ![id].status = status, ![id].endedAt = endedAt]
    ELSE [interviews EXCEPT ![id].status = status]

createInterviewMessage(rows, interviewId, sender, content, sentAt) ==
    [id |-> Len(rows) + 1, interviewId |-> interviewId, sender |-> sender,
     content |-> content, sentAt |-> sentAt]

(* The rows of one interview, as a set *)
MessagesOf(rows, interviewId) ==
    {rows[k] : k \in {j \in 1..Len(rows) : rows[j].interviewId = interviewId}}

(* getInterviewMessages with ORDER BY sentAt DESC *)
getInterviewMessagesNewestFirst(rows, interviewId, fault) ==
    IF fault # "ok" THEN {<<>>}
    ELSE LET S == MessagesOf(rows, interviewId)
         IN {h \in [1..Cardinality(S) -> S] :
               /\ \A a, b \in 1..Cardinality(S) : a # b => h[a] # h[b]
               /\ \A a, b \in 1..Cardinality(S) :
                     a < b => h[a].sentAt >= h[b].sentAt}

(* SELECT ... WHERE interviewId = ? ORDER BY sentAt ASC: every listing of  *)
(* the interview's rows that is non-decreasing in sentAt.  SQL leaves the  *)
(* order of rows with equal sentAt open.                                   *)
getInterviewMessages(rows, interviewId, fault) ==
    IF fault # "ok" THEN {<<>>}
    ELSE LET S == MessagesOf(rows, interviewId)
         IN {h \in [1..Cardinality(S) -> S] :
               /\ \A a, b \in 1..Cardinality(S) : a # b => h[a] # h[b]
               /\ \A a, b \in 1..Cardinality(S) : a < b => h[a].sentAt <= h[b].sentAt}

---------------------------------------------------------------------------
(* HTTP response bodies (server/routes.ts) *)

Message(text) == [message |-> text]

(* res.json(undefined) *)
EmptyBody == [undefined |-> TRUE]

---------------------------------------------------------------------------
(* Message texts *)

(* The greeting with the role left out of the template *)
GreetingNoRole(character, targetRole) ==
    <<"Hello! I'm your", character, "interviewer. Welcome to ChessView.">>

(* routes.ts:298, the template split at its two parameters *)
Greeting(character, targetRole) ==
    <<"Hello! I'm your", character,
      "interviewer. Welcome to ChessView. Let's start with a brief introduction. Could you tell me a bit about yourself and your background in",
      targetRole, "?">>

Contains(content, token) ==
    \E k \in 1..Len(content) : content[k] = token

(* routes.ts:486 *)
ProcessingText ==
    <<"I'm processing your response. Please give me a moment.">>

(* routes.ts:489 *)
ApologyText ==
    <<"I apologize, but I'm having trouble forming a response. Let's continue our interview. Could you tell me more about your experience?">>

---------------------------------------------------------------------------
(* Initial state: the empty database of db.ts, no request in flight *)

Init ==
    /\ users = <<>>
    /\ resumes = <<>>
    /\ interviews = <<>>
    /\ messages = <<>>
    /\ parseJobs = {}
    /\ pending = {}
    /\ now = 0
    /\ files = {}
    /\ served = <<>>

(* The wall clock advances (one tick = one millisecond of Date) *)
Tick ==
    /\ now < MaxTime
    /\ now' = now + 1
    /\ UNCHANGED <<users, resumes, interviews, messages, parseJobs, pending>>
    /\ UNCHANGED <<files, served>>

---------------------------------------------------------------------------
(* POST /api/auth/register *)

registerRoute(email, fault) ==
    IF getUserByEmail(email) # undefined
    THEN [users |-> users, status |-> 400,
          body |-> Message("User with this email already exists")]
    ELSE IF fault = "stmt"
    THEN [users |-> users, status |-> 500,
          body |-> Message("Failed to register user")]
    ELSE LET user == createUser(email)
         IN IF fault = "refetch"
            THEN [users |-> Append(users, user), status |-> 500,
                  body |-> Message("Failed to register user")]
            ELSE [users |-> Append(users, user), status |-> 201, body |-> user]

Register(email, fault) ==
    LET out == registerRoute(email, fault)
    IN /\ email <= Len(users) + 1
       /\ Len(out.users) <= MaxUsers
       /\ users' = out.users
       /\ UNCHANGED <<resumes, interviews, messages, parseJobs, pending, now>>
       /\ UNCHANGED <<files, served>>

---------------------------------------------------------------------------
(* POST /api/resumes, and the setTimeout job it starts *)

uploadResumeRoute(actor, hasFile, fault) ==
    IF ~hasFile
    THEN [resumes |-> resumes, jobs |-> parseJobs, status |-> 400,
          body |-> Message("No resume file uploaded")]
    ELSE IF fault = "stmt"
    THEN [resumes |-> resumes, jobs |-> parseJobs, status |-> 500,
          body |-> Message("Failed to upload resume")]
    ELSE LET resume == createResume(actor)
         IN IF fault = "refetch"
            THEN [resumes |-> Append(resumes, resume), jobs |-> parseJobs,
                  status |-> 500, body |-> Message("Failed to upload resume")]
            ELSE [resumes |-> Append(resumes, resume),
                  jobs |-> parseJobs \cup {resume.id},
                  status |-> 201, body |-> resume]

UploadResume(actor, hasFile, fault) ==
    LET out == uploadResumeRoute(actor, hasFile, fault)
    IN /\ validateSession(actor)
       /\ Len(out.resumes) <= MaxResumes
       /\ resumes' = out.resumes
       /\ parseJobs' = out.jobs
       /\ UNCHANGED <<users, interviews, messages, pending, now>>
       /\ UNCHANGED <<files, served>>

(* The timer fires: storage.updateResumeParsedContent(resume.id, {...}).   *)
(* A failed UPDATE is swallowed by the method.                             *)
ParseResume(id, fault) ==
    /\ id \in parseJobs
    /\ parseJobs' = parseJobs \ {id}
    /\ resumes' = IF fault = "stmt" THEN resumes
                  ELSE updateResumeParsedContent(id, ParsedObject)
    /\ UNCHANGED <<users, interviews, messages, pending, now>>
    /\ UNCHANGED <<files, served>>

---------------------------------------------------------------------------
(* Request validation (the zod schemas at the end of routes.ts): the       *)
(* NOT NULL text columns must be present in the body.                      *)

insertInterviewSchema(body) ==
    {"targetRole", "experienceLevel", "interviewerCharacter"}
        \subseteq DOMAIN body

insertInterviewMessageSchema(body) ==
    "content" \in DOMAIN body

---------------------------------------------------------------------------
(* POST /api/interviews.  The handler runs to its response in one step.    *)
(* body.resumeId = 0 stands for a body without resumeId.  later is the     *)
(* number of clock ticks between the new Date() of createInterview and     *)
(* the new Date() of the greeting's createInterviewMessage.                *)

(* The resume check with the ownership comparison left out *)
resumeAuthorizedAnyOwner(actor, resumeId, rf) ==
    resumeId > 0 => getResume(resumeId, rf) # undefined

(* routes.ts:285-290: a resumeId, when given, must be a resume of the actor *)
resumeAuthorized(actor, resumeId, rf) ==
    LET resume == getResume(resumeId, rf)
    IN resumeId > 0 => (resume # undefined /\ resume[1].userId = actor)

createInterviewRoute(actor, body, rf, cf, mf, later) ==
    LET same == [interviews |-> interviews, messages |-> messages, now |-> now]
        interview == createInterview(actor, body.resumeId, body.targetRole,
                                     body.experienceLevel,
                                     body.interviewerCharacter)
        initialMessage ==
            createInterviewMessage(messages, interview.id, "ai",
                Greeting(interview.interviewerCharacter, interview.targetRole),
                now + later)
        failed == Message("Failed to create interview")
    IN IF ~insertInterviewSchema(body)
       THEN same @@ [status |-> 400, body |-> Message("Invalid input data")]
       ELSE IF ~resumeAuthorized(actor, body.resumeId, rf)
       THEN same @@ [status |-> 403,
                     body |-> Message("Not authorized to use this resume")]
       ELSE IF cf = "stmt"
       THEN same @@ [status |-> 500, body |-> failed]
       ELSE IF cf = "refetch"
       THEN [interviews |-> Append(interviews, interview),
             messages |-> messages, now |-> now,
             status |-> 500, body |-> failed]
       ELSE IF mf = "stmt"
       THEN [interviews |-> Append(interviews, interview),
             messages |-> messages, now |-> now + later,
             status |-> 500, body |-> failed]
       ELSE [interviews |-> Append(interviews, interview),
             messages |-> Append(messages, initialMessage),
             now |-> now + later,
             status |-> IF mf = "refetch" THEN 500 ELSE 201,
             body |-> IF mf = "refetch" THEN failed ELSE interview]

CreateInterview(actor, body, rf, cf, mf, later) ==
    LET out == createInterviewRoute(actor, body, rf, cf, mf, later)
    IN /\ validateSession(actor)
       /\ Len(out.interviews) <= MaxInterviews
       /\ Len(out.messages) + Cardinality(pending) <= MaxMessages
       /\ out.now <= MaxTime
       /\ interviews' = out.interviews
       /\ messages' = out.messages
       /\ now' = out.now
       /\ UNCHANGED <<users, resumes, parseJobs, pending>>
       /\ UNCHANGED <<files, served>>

---------------------------------------------------------------------------
(* PATCH /api/interviews/:id/end *)

(* An end route that reopens an interview that is already completed *)
endStatusToggle(interview) ==
    IF interview.status = "completed" THEN "in_progress" ELSE "completed"

(* routes.ts:354: the status the route writes *)
endStatus(interview) == "completed"

(* endInterviewRoute without the comparison of the owner with the actor *)
endInterviewRouteAnyone(actor, id, gf, uf) ==
    LET interview == getInterview(id, gf)
        updated == updateInterviewStatus(id, endStatus(interview[1]), now)
    IN IF interview = undefined
       THEN [interviews |-> interviews, status |-> 404,
             body |-> Message("Interview not found")]
       ELSE IF uf = "stmt"
       THEN [interviews |-> interviews, status |-> 200, body |-> EmptyBody]
       ELSE IF uf = "refetch"
       THEN [interviews |-> updated, status |-> 200, body |-> EmptyBody]
       ELSE [interviews |-> updated, status |-> 200, body |-> updated[id]]

endInterviewRoute(actor, id, gf, uf) ==
    LET interview == getInterview(id, gf)
        updated == updateInterviewStatus(id, endStatus(interview[1]), now)
    IN IF interview = undefined
       THEN [interviews |-> interviews, status |-> 404,
             body |-> Message("Interview not found")]
       ELSE IF interview[1].userId # actor
       THEN [interviews |-> interviews, status |-> 403,
             body |-> Message("Not authorized to access this interview")]
       ELSE IF uf = "stmt"
       THEN [interviews |-> interviews, status |-> 200, body |-> EmptyBody]
       ELSE IF uf = "refetch"
       THEN [interviews |-> updated, status |-> 200, body |-> EmptyBody]
       ELSE [interviews |-> updated, status |-> 200, body |-> updated[id]]

EndInterview(actor, id, gf, uf) ==
    LET out == endInterviewRoute(actor, id, gf, uf)
    IN /\ validateSession(actor)
       /\ interviews' = out.interviews
       /\ UNCHANGED <<users, resumes, messages, parseJobs, pending, now>>
       /\ UNCHANGED <<files, served>>

---------------------------------------------------------------------------
(* POST /api/interviews/:id/messages, first half: from the request to the  *)
(* await of openai.chat.completions.create                                 *)

(* postMessageChecks without the test of the interview's status *)
postMessageChecksAnyStatus(actor, id, gf) ==
    LET interview == getInterview(id, gf)
    IN IF interview = undefined
       THEN [status |-> 404, body |-> Message("Interview not found")]
       ELSE IF interview[1].userId # actor
       THEN [status |-> 403,
             body |-> Message("Not authorized to access this interview")]
       ELSE [status |-> 0, body |-> interview[1]]

(* routes.ts:388-400; status 0 = all three checks passed *)
postMessageChecks(actor, id, gf) ==
    LET interview == getInterview(id, gf)
    IN IF interview = undefined
       THEN [status |-> 404, body |-> Message("Interview not found")]
       ELSE IF interview[1].userId # actor
       THEN [status |-> 403,
             body |-> Message("Not authorized to access this interview")]
       ELSE IF interview[1].status # "in_progress"
       THEN [status |-> 400,
             body |-> Message("Cannot send messages to a completed or cancelled interview")]
       ELSE [status |-> 0, body |-> interview[1]]

(* routes.ts:415-421 *)
resumeContextOf(interview, rf) ==
    LET resume == IF interview.resumeId > 0
                  THEN getResume(interview.resumeId, rf) ELSE undefined
    IN IF resume # undefined /\ resume[1].parsedContent # NullText
       THEN JSONstringify(resume[1].parsedContent) ELSE ""

(* routes.ts:463-484: the request handed to the completion service *)
completionRequest(character, role, level, history, resumeContext) ==
    [system |-> [role |-> role, character |-> character, level |-> level,
                 resumeContext |-> resumeContext],
     messages |-> [k \in 1..Len(history) |->
                     [role |-> IF history[k].sender = "user" THEN "user"
                               ELSE "assistant",
                      content |-> history[k].content]]]

(* postMessageRoute with the completion call made although the INSERT of   *)
(* the user message failed                                                 *)
postMessageRouteCallFirst(actor, id, body, gf, mf, history, rf) ==
    LET checks == postMessageChecks(actor, id, gf)
        interview == checks.body
        userMessage == createInterviewMessage(messages, id, "user",
                                              body.content, now)
        none == [messages |-> messages, call |-> undefined]
        call == [actor |-> actor, interview |-> interview,
                 userMessage |-> userMessage,
                 request |-> completionRequest(
                     interview.interviewerCharacter, interview.targetRole,
                     interview.experienceLevel, history,
                     resumeContextOf(interview, rf))]
    IN IF checks.status # 0
       THEN none @@ checks
       ELSE IF ~insertInterviewMessageSchema(body)
       THEN none @@ [status |-> 400, body |-> Message("Invalid input data")]
       ELSE IF mf = "stmt"
       THEN [messages |-> messages, call |-> <<call>>,
             status |-> 0, body |-> EmptyBody]
       ELSE IF mf = "refetch"
       THEN [messages |-> Append(messages, userMessage), call |-> undefined,
             status |-> 500, body |-> Message("Failed to send message")]
       ELSE [messages |-> Append(messages, userMessage), call |-> <<call>>,
             status |-> 0, body |-> EmptyBody]

(* The handler up to the await.  status 0 = suspended on the completion   *)
(* call with the request in call; history is the result of                 *)
(* getInterviewMessages.                                                   *)
postMessageRoute(actor, id, body, gf, mf, history, rf) ==
    LET checks == postMessageChecks(actor, id, gf)
        interview == checks.body
        userMessage == createInterviewMessage(messages, id, "user",
                                              body.content, now)
        none == [messages |-> messages, call |-> undefined]
        failed == Message("Failed to send message")
    IN IF checks.status # 0
       THEN none @@ checks
       ELSE IF ~insertInterviewMessageSchema(body)
       THEN none @@ [status |-> 400, body |-> Message("Invalid input data")]
       ELSE IF mf = "stmt"
       THEN none @@ [status |-> 500, body |-> failed]
       ELSE IF mf = "refetch"
       THEN [messages |-> Append(messages, userMessage), call |-> undefined,
             status |-> 500, body |-> failed]
       ELSE [messages |-> Append(messages, userMessage),
             call |-> <<[actor |-> actor,
                         interview |-> interview,
                         userMessage |-> userMessage,
                         request |-> completionRequest(
                             interview.interviewerCharacter,
                             interview.targetRole,
                             interview.experienceLevel,
                             history,
                             resumeContextOf(interview, rf))]>>,
             status |-> 0, body |-> EmptyBody]

(* The listings getInterviewMessages can return at routes.ts:412, after    *)
(* the user message is stored                                              *)
historiesAt(actor, id, body, gf, mf, hf) ==
    LET before == postMessageRoute(actor, id, body, gf, mf, <<>>, "ok")
    IN IF before.status # 0 THEN {<<>>}
       ELSE getInterviewMessages(before.messages, id, hf)

(* The first half of the handler, explored while the table stays within   *)
(* maxMessages rows (a reply reserved for each suspended request) and at   *)
(* most maxPending requests are suspended                                  *)
PostStartWithin(maxMessages, maxPending, actor, id, body, gf, mf, hf, rf) ==
    \E history \in historiesAt(actor, id, body, gf, mf, hf) :
      LET out == postMessageRoute(actor, id, body, gf, mf, history, rf)
      IN /\ validateSession(actor)
         /\ Len(out.messages) + Cardinality(pending) + Len(out.call)
               <= maxMessages
         /\ Cardinality(pending) + Len(out.call) <= maxPending
         /\ messages' = out.messages
         /\ pending' = pending \cup {out.call[k] : k \in 1..Len(out.call)}
         /\ UNCHANGED <<users, resumes, interviews, parseJobs, now>>
         /\ UNCHANGED <<files, served>>

PostStart(actor, id, body, gf, mf, hf, rf) ==
    PostStartWithin(MaxMessages, MaxPending, actor, id, body, gf, mf, hf, rf)

---------------------------------------------------------------------------
(* The completion service answers, and the handler resumes *)

StrContent(text) == [t |-> "str", v |-> text]
NullContent == [t |-> "null"]

(* What openai.chat.completions.create can do: reject (network error,     *)
(* HTTP error), or resolve with a body of zero or one choice whose         *)
(* content is null, the empty string or a text.                            *)
Completions ==
    {[kind |-> "throw"], [kind |-> "response", choices |-> <<>>]}
    \cup {[kind |-> "response", choices |-> <<[content |-> c]>>] :
            c \in {NullContent, StrContent(<<>>)}
                  \cup {StrContent(text) : text \in Replies}}

(* JavaScript truthiness of message.content *)
Truthy(content) == content.t = "str" /\ content.v # <<>>

(* getAIResponse with the placeholder text returned from the catch block *)
getAIResponseWrongCatch(result) ==
    IF result.kind = "throw" THEN ProcessingText
    ELSE IF result.choices = <<>> THEN ApologyText
    ELSE IF Truthy(result.choices[1].content)
         THEN result.choices[1].content.v
         ELSE ProcessingText

(* routes.ts:479-490 *)
getAIResponse(result) ==
    IF result.kind = "throw" THEN ApologyText
    ELSE IF result.choices = <<>> THEN ApologyText
    ELSE IF Truthy(result.choices[1].content)
         THEN result.choices[1].content.v
         ELSE ProcessingText

(* postMessageResume answering 201 with a reply it never stored *)
postMessageResumeNoReply(p, result, mf) ==
    LET aiMessage == createInterviewMessage(messages, p.interview.id, "ai",
                                            getAIResponse(result), now)
    IN IF mf = "stmt"
       THEN [messages |-> messages, status |-> 500,
             body |-> Message("Failed to send message")]
       ELSE [messages |-> messages,
             status |-> IF mf = "refetch" THEN 500 ELSE 201,
             body |-> IF mf = "refetch"
                      THEN Message("Failed to send message")
                      ELSE [userMessage |-> p.userMessage,
                            aiMessage |-> aiMessage]]

(* postMessageResume writing the reply over the newest row of the table    *)
(* instead of inserting it                                                 *)
postMessageResumeOverwrite(p, result, mf) ==
    LET aiMessage == [createInterviewMessage(messages, p.interview.id, "ai",
                                             getAIResponse(result), now)
                        EXCEPT !.id = Len(messages)]
    IN IF mf = "stmt"
       THEN [messages |-> messages, status |-> 500,
             body |-> Message("Failed to send message")]
       ELSE [messages |-> [messages EXCEPT ![Len(messages)] = aiMessage],
             status |-> IF mf = "refetch" THEN 500 ELSE 201,
             body |-> IF mf = "refetch"
                      THEN Message("Failed to send message")
                      ELSE [userMessage |-> p.userMessage,
                            aiMessage |-> aiMessage]]

(* The handler from the await to its response *)
postMessageResume(p, result, mf) ==
    LET aiResponseContent == getAIResponse(result)
        aiMessage == createInterviewMessage(messages, p.interview.id, "ai",
                                            aiResponseContent, now)
    IN IF mf = "stmt"
       THEN [messages |-> messages, status |-> 500,
             body |-> Message("Failed to send message")]
       ELSE IF mf = "refetch"
       THEN [messages |-> Append(messages, aiMessage), status |-> 500,
             body |-> Message("Failed to send message")]
       ELSE [messages |-> Append(messages, aiMessage), status |-> 201,
             body |-> [userMessage |-> p.userMessage,
                       aiMessage |-> aiMessage]]

PostFinish(p, result, mf) ==
    LET out == postMessageResume(p, result, mf)
    IN /\ p \in pending
       /\ pending' = pending \ {p}
       /\ messages' = out.messages
       /\ UNCHANGED <<users, resumes, interviews, parseJobs, now>>
       /\ UNCHANGED <<files, served>>

---------------------------------------------------------------------------
(* Requests and fault scenarios.  A fault is listed only for a storage     *)
(* call the handler reaches: a handler that has answered makes no further  *)
(* call.                                                                   *)

InterviewBodies ==
    [resumeId : 0..(MaxResumes + 1), targetRole : Roles,
     experienceLevel : Levels, interviewerCharacter : Personas]
    \cup [resumeId : {0}, interviewerCharacter : Personas]

MessageBodies ==
    {[content |-> c] : c \in Contents} \cup {[other |-> TRUE]}

CreateFaults ==
    {f \in [rf : ReadFaults, cf : WriteFaults, mf : WriteFaults] :
        /\ f.rf = "err" => f.cf = "ok" /\ f.mf = "ok"
        /\ f.cf # "ok" => f.mf = "ok"}

EndFaults ==
    {f \in [gf : ReadFaults, uf : WriteFaults] : f.gf = "err" => f.uf = "ok"}

PostFaults ==
    {f \in [gf : ReadFaults, mf : WriteFaults, hf : ReadFaults,
            rf : ReadFaults] :
        /\ f.gf = "err" => f.mf = "ok" /\ f.hf = "ok" /\ f.rf = "ok"
        /\ f.mf # "ok" => f.hf = "ok" /\ f.rf = "ok"}

Next ==
    \/ Tick
    \/ \E email \in Emails, fault \in WriteFaults : Register(email, fault)
    \/ \E actor \in 1..MaxUsers, hasFile \in BOOLEAN, fault \in WriteFaults :
         UploadResume(actor, hasFile, fault)
    \/ \E id \in 1..MaxResumes, fault \in WriteFaults : ParseResume(id, fault)
    \/ \E actor \in 1..MaxUsers, body \in InterviewBodies, f \in CreateFaults,
          later \in 0..1 :
         CreateInterview(actor, body, f.rf, f.cf, f.mf, later)
    \/ \E actor \in 1..MaxUsers, id \in 1..(MaxInterviews + 1),
          f \in EndFaults :
         EndInterview(actor, id, f.gf, f.uf)
    \/ \E actor \in 1..MaxUsers, id \in 1..(MaxInterviews + 1),
          body \in MessageBodies, f \in PostFaults :
         PostStart(actor, id, body, f.gf, f.mf, f.hf, f.rf)
    \/ \E p \in pending, result \in Completions, mf \in WriteFaults :
         PostFinish(p, result, mf)

Spec == Init /\ [][Next]_vars

(* What the scheduling guarantees: time passes, a timer that was set       *)
(* fires.  That the completion service ever settles a call is no part of   *)
(* it: the client is built without a timeout (routes.ts:53-56) and the     *)
(* call is awaited without one (routes.ts:479).                            *)
FairSpec ==
    /\ Spec
    /\ WF_vars(Tick)
    /\ WF_vars(\E id \in 1..MaxResumes, fault \in WriteFaults :
                  ParseResume(id, fault))

---------------------------------------------------------------------------
(* The read-only handlers: the listings, the read of one resume, the       *)
(* export of interviews.  Each is a function of the tables (and of the     *)
(* clock, for the name of an export file).                                 *)

(* Bounds of the read specifications: the rows of the database file the    *)
(* server opens, the read requests it answers                              *)
MaxStoredInterviews == 3
MaxStoredResumes == 2
MaxServed == 1
MaxExports == 2

(* The instants of the stored rows and of the date filters *)
StoredInstants == {9, 10}

(* A startDate / endDate query parameter that new Date() cannot read *)
InvalidDate == 0 - 2

(* Date.prototype.toISOString: a text of fixed width (here two digits).    *)
(* The timestamp columns are TEXT and hold this text.                      *)
toISOString(t) == <<t \div 10, t % 10>>

(* The order of SQLite on TEXT values: byte by byte, a prefix first *)
TextLess(a, b) ==
    \/ \E k \in 1..Len(a) :
          /\ k <= Len(b)
          /\ \A j \in 1..(k - 1) : a[j] = b[j]
          /\ a[k] < b[k]
    \/ Len(a) < Len(b) /\ \A j \in 1..Len(a) : a[j] = b[j]

TextLeq(a, b) == a = b \/ TextLess(a, b)

(* ORDER BY <column> DESC: every listing of the rows S that does not       *)
(* increase in the text of the timestamp column; rows of equal text come   *)
(* in any order.                                                           *)
OrderByDesc(S, column) ==
    {h \in [1..Cardinality(S) -> S] :
        /\ \A a, b \in 1..Cardinality(S) : a # b => h[a] # h[b]
        /\ \A a, b \in 1..Cardinality(S) :
              a < b => TextLeq(toISOString(h[b][column]),
                               toISOString(h[a][column]))}

(* getResumesByUser with the rows in the order of their ids *)
getResumesByUserUnordered(userId, fault) ==
    IF fault # "ok" THEN {<<>>}
    ELSE LET S == {resumes[k] : k \in {j \in 1..Len(resumes) :
                                          resumes[j].userId = userId}}
         IN {[k \in 1..Cardinality(S) |-> parseResumeRow(h[k])] :
               h \in {g \in [1..Cardinality(S) -> S] :
                        \A a, b \in 1..Cardinality(S) :
                            a < b => g[a].id < g[b].id}}

getResumesByUser(userId, fault) ==
    IF fault # "ok" THEN {<<>>}
    ELSE LET S == {resumes[k] : k \in {j \in 1..Len(resumes) :
                                          resumes[j].userId = userId}}
         IN {[k \in 1..Cardinality(S) |-> parseResumeRow(h[k])] :
               h \in OrderByDesc(S, "uploadedAt")}

(* getInterviewsByUser without the WHERE clause *)
getInterviewsOfAllUsers(userId, fault) ==
    IF fault # "ok" THEN {<<>>}
    ELSE OrderByDesc({interviews[k] : k \in 1..Len(interviews)},
                     "startedAt")

getInterviewsByUser(userId, fault) ==
    IF fault # "ok" THEN {<<>>}
    ELSE OrderByDesc({interviews[k] : k \in {j \in 1..Len(interviews) :
                                                interviews[j].userId = userId}},
                     "startedAt")

(* GET /api/interviews: the responses the handler can send *)
listInterviewsRoute(actor, fault) ==
    {[status |-> 200, body |-> h] : h \in getInterviewsByUser(actor, fault)}

(* GET /api/resumes *)
listResumesRoute(actor, fault) ==
    {[status |-> 200, body |-> h] : h \in getResumesByUser(actor, fault)}

(* GET /api/resumes/:id *)
getResumeRoute(actor, id, fault) ==
    LET resume == getResume(id, fault)
    IN IF resume = undefined
       THEN [status |-> 404, body |-> Message("Resume not found")]
       ELSE IF resume[1].userId # actor
       THEN [status |-> 403,
             body |-> Message("Not authorized to access this resume")]
       ELSE [status |-> 200, body |-> resume[1]]

(* GET /api/interviews/:id *)
getInterviewRoute(actor, id, fault) ==
    LET interview == getInterview(id, fault)
    IN IF interview = undefined
       THEN [status |-> 404, body |-> Message("Interview not found")]
       ELSE IF interview[1].userId # actor
       THEN [status |-> 403,
             body |-> Message("Not authorized to access this interview")]
       ELSE [status |-> 200, body |-> interview[1]]

(* GET /api/interviews/:id/messages: the responses the handler can send;   *)
(* fault is of the read of the interview, listFault of the read of its     *)
(* messages                                                                *)
getMessagesRoute(actor, id, fault, listFault) ==
    LET interview == getInterview(id, fault)
    IN IF interview = undefined
       THEN {[status |-> 404, body |-> Message("Interview not found")]}
       ELSE IF interview[1].userId # actor
       THEN {[status |-> 403,
              body |-> Message("Not authorized to access this interview")]}
       ELSE {[status |-> 200, body |-> h] :
               h \in getInterviewMessages(messages, interview[1].id,
                                          listFault)}

---------------------------------------------------------------------------
(* GET /api/export/interviews *)

(* Object.keys of a row of the interviews table: its columns (db.ts) *)
Columns ==
    <<"id", "userId", "resumeId", "targetRole", "experienceLevel",
      "startedAt", "endedAt", "status", "interviewerCharacter">>

(* Object.keys of a row of the interview_messages table (db.ts) *)
MessageColumns == <<"id", "interviewId", "sender", "content", "sentAt">>

(* Object.keys / Object.values of the row handed to objectToCSVRow *)
ObjectKeys(obj) ==
    IF "sender" \in DOMAIN obj THEN MessageColumns ELSE Columns

(* One value of objectToCSVRow: nothing for a NULL, else the value between *)
(* double quotes.  The export reads the table itself, so a timestamp is    *)
(* the stored text.                                                        *)
csvCell(obj, column) ==
    IF column \in {"resumeId", "endedAt"} /\ obj[column] = Null
    THEN [quoted |-> FALSE]
    ELSE IF column \in {"startedAt", "endedAt", "sentAt"}
    THEN [quoted |-> TRUE, value |-> toISOString(obj[column])]
    ELSE [quoted |-> TRUE, value |-> obj[column]]

objectToCSVRow(obj) ==
    [k \in 1..Len(ObjectKeys(obj)) |-> csvCell(obj, ObjectKeys(obj)[k])]

NoInterviewsText == "No interviews found matching the criteria"

(* The WHERE clause with both date bounds exclusive *)
exportWhereExclusive(interview, options) ==
    /\ options.userId # 0 => interview.userId = options.userId
    /\ options.startDate # Null =>
          TextLess(toISOString(options.startDate),
                   toISOString(interview.startedAt))
    /\ options.endDate # Null =>
          TextLess(toISOString(interview.startedAt),
                   toISOString(options.endDate))

(* storage.ts:376-394: the WHERE clause built from the options that are    *)
(* given (userId 0, a date Null: not given)                                *)
exportWhere(interview, options) ==
    /\ options.userId # 0 => interview.userId = options.userId
    /\ options.startDate # Null =>
          TextLeq(toISOString(options.startDate),
                  toISOString(interview.startedAt))
    /\ options.endDate # Null =>
          TextLeq(toISOString(interview.startedAt),
                  toISOString(options.endDate))

(* path.join(exportsDir, filename): an absolute path *)
exportPathAt(instant) ==
    <<"/", "exports", "interviews_export", toISOString(instant)>>

(* exportInterviewsToCSV that writes its header row also when no row       *)
(* matches                                                                 *)
exportInterviewsToCSVAlways(options, fault) ==
    IF InvalidDate \in {options.startDate, options.endDate} \/ fault # "ok"
    THEN {[files |-> files, kind |-> "throw"]}
    ELSE LET S == {interviews[k] : k \in {j \in 1..Len(interviews) :
                                     exportWhere(interviews[j], options)}}
             filePath == exportPathAt(now)
         IN {[files |-> {f \in files : f.path # filePath}
                          \cup {[path |-> filePath,
                                  content |-> <<Columns>> \o
                                      [k \in 1..Len(h) |->
                                          objectToCSVRow(h[k])]]},
              kind |-> "path", value |-> filePath] :
               h \in OrderByDesc(S, "startedAt")}

(* storage.ts:370-420.  The outcomes: the function throws, it returns the  *)
(* message, it writes the file (replacing one of the same name) and        *)
(* returns its path.                                                       *)
exportInterviewsToCSV(options, fault) ==
    IF InvalidDate \in {options.startDate, options.endDate} \/ fault # "ok"
    THEN {[files |-> files, kind |-> "throw"]}
    ELSE LET S == {interviews[k] : k \in {j \in 1..Len(interviews) :
                                     exportWhere(interviews[j], options)}}
             filePath == exportPathAt(now)
         IN IF S = {}
            THEN {[files |-> files, kind |-> "message",
                   value |-> NoInterviewsText]}
            ELSE {[files |-> {f \in files : f.path # filePath}
                             \cup {[path |-> filePath,
                                     content |-> <<Columns>> \o
                                         [k \in 1..Len(h) |->
                                             objectToCSVRow(h[k])]]},
                   kind |-> "path", value |-> filePath] :
                  h \in OrderByDesc(S, "startedAt")}

(* routes.ts:496-529: the export of the actor's interviews; a path is sent *)
(* as a download, the message as JSON                                      *)
exportInterviewsRoute(actor, startDate, endDate, fault) ==
    {IF out.kind = "throw"
     THEN [files |-> out.files, status |-> 500,
           body |-> Message("Failed to export interviews")]
     ELSE IF out.kind = "path" /\ out.value[1] = "/"
     THEN [files |-> out.files, status |-> 200,
           body |-> [download |-> out.value]]
     ELSE [files |-> out.files, status |-> 200, body |-> Message(out.value)] :
       out \in exportInterviewsToCSV(
                   [userId |-> actor, startDate |-> startDate,
                    endDate |-> endDate], fault)}

(* path.join(exportsDir, filename) of the export of one interview *)
messagesExportPathAt(interviewId, instant) ==
    <<"/", "exports", "interview", interviewId, "messages",
      toISOString(instant)>>

NoMessagesText == "No messages found for this interview"

(* storage.ts:423-463.  A failed statement and an interview that is not    *)
(* found both leave through the catch block, which throws.                 *)
exportInterviewMessagesToCSV(interviewId, fault) ==
    IF fault # "ok" \/ interviewId \notin 1..Len(interviews)
    THEN {[files |-> files, kind |-> "throw"]}
    ELSE LET filePath == messagesExportPathAt(interviewId, now)
         IN IF MessagesOf(messages, interviewId) = {}
            THEN {[files |-> files, kind |-> "message",
                   value |-> NoMessagesText]}
            ELSE {[files |-> {f \in files : f.path # filePath}
                             \cup {[path |-> filePath,
                                     content |-> <<MessageColumns>> \o
                                         [k \in 1..Len(h) |->
                                             objectToCSVRow(h[k])]]},
                   kind |-> "path", value |-> filePath] :
                  h \in getInterviewMessages(messages, interviewId, "ok")}

(* routes.ts:532-558: the export of the messages of one interview; fault   *)
(* is of the read of the interview, exportFault of the export              *)
exportMessagesRoute(actor, id, fault, exportFault) ==
    LET interview == getInterview(id, fault)
    IN IF interview = undefined
       THEN {[files |-> files, status |-> 404,
              body |-> Message("Interview not found")]}
       ELSE IF interview[1].userId # actor
       THEN {[files |-> files, status |-> 403,
              body |-> Message("Not authorized to access this interview")]}
       ELSE {IF out.kind = "throw"
             THEN [files |-> out.files, status |-> 500,
                   body |-> Message("Failed to export interview messages")]
             ELSE IF out.kind = "path" /\ out.value[1] = "/"
             THEN [files |-> out.files, status |-> 200,
                   body |-> [download |-> out.value]]
             ELSE [files |-> out.files, status |-> 200,
                   body |-> Message(out.value)] :
               out \in exportInterviewMessagesToCSV(id, exportFault)}

---------------------------------------------------------------------------
(* The read requests as actions *)

GetInterview(actor, id, fault) ==
    /\ validateSession(actor)
    /\ Len(served) < MaxServed
    /\ served' = Append(served, [route |-> "GET /api/interviews/:id",
                                   actor |-> actor]
                                  @@ getInterviewRoute(actor, id, fault))
    /\ UNCHANGED <<users, resumes, interviews, messages, parseJobs, pending,
                   now, files>>

GetMessages(actor, id, fault, listFault) ==
    /\ validateSession(actor)
    /\ Len(served) < MaxServed
    /\ \E r \in getMessagesRoute(actor, id, fault, listFault) :
          served' = Append(served,
                           [route |-> "GET /api/interviews/:id/messages",
                            actor |-> actor] @@ r)
    /\ UNCHANGED <<users, resumes, interviews, messages, parseJobs, pending,
                   now, files>>

ExportMessages(actor, id, fault, exportFault) ==
    /\ validateSession(actor)
    /\ Len(served) < MaxServed
    /\ \E r \in exportMessagesRoute(actor, id, fault, exportFault) :
          /\ files' = r.files
          /\ served' = Append(served,
                              [route |->
                                  "GET /api/export/interviews/:id/messages",
                               actor |-> actor,
                               status |-> r.status, body |-> r.body])
    /\ UNCHANGED <<users, resumes, interviews, messages, parseJobs, pending,
                   now>>

ListInterviews(actor, fault) ==
    /\ validateSession(actor)
    /\ Len(served) < MaxServed
    /\ \E r \in listInterviewsRoute(actor, fault) :
          served' = Append(served, [route |-> "GET /api/interviews",
                                        actor |-> actor] @@ r)
    /\ UNCHANGED <<users, resumes, interviews, messages, parseJobs, pending,
                   now, files>>

ListResumes(actor, fault) ==
    /\ validateSession(actor)
    /\ Len(served) < MaxServed
    /\ \E r \in listResumesRoute(actor, fault) :
          served' = Append(served, [route |-> "GET /api/resumes",
                                        actor |-> actor] @@ r)
    /\ UNCHANGED <<users, resumes, interviews, messages, parseJobs, pending,
                   now, files>>

GetResume(actor, id, fault) ==
    /\ validateSession(actor)
    /\ Len(served) < MaxServed
    /\ served' = Append(served, [route |-> "GET /api/resumes/:id",
                                   actor |-> actor]
                                  @@ getResumeRoute(actor, id, fault))
    /\ UNCHANGED <<users, resumes, interviews, messages, parseJobs, pending,
                   now, files>>

(* The handler up to its call of res.download or res.json: the file is on  *)
(* the disk and the response that names it is begun.                       *)
ExportInterviews(actor, startDate, endDate, fault) ==
    /\ validateSession(actor)
    /\ Len(served) < MaxExports
    /\ \E r \in exportInterviewsRoute(actor, startDate, endDate, fault) :
          /\ files' = r.files
          /\ served' = Append(served, [route |-> "GET /api/export/interviews",
                                        actor |-> actor,
                                        status |-> r.status, body |-> r.body])
    /\ UNCHANGED <<users, resumes, interviews, messages, parseJobs, pending,
                   now>>

(* res.download (routes.ts:519, 549) opens and streams the file of the     *)
(* path in a later turn of the event loop: the k-th response receives what *)
(* the path holds then.                                                    *)
SendFile(k) ==
    /\ k \in 1..Len(served)
    /\ served[k].route \in {"GET /api/export/interviews",
                            "GET /api/export/interviews/:id/messages"}
    /\ served[k].status = 200
    /\ "download" \in DOMAIN served[k].body
    /\ \E f \in files :
          /\ f.path = served[k].body.download
          /\ served' = [served EXCEPT ![k].body = [file |-> f.content]]
    /\ UNCHANGED <<users, resumes, interviews, messages, parseJobs, pending,
                   now, files>>

(* The database file the server finds at its start (db.ts:12-13 opens it,  *)
(* CREATE TABLE IF NOT EXISTS keeps its rows): users, and rows written by  *)
(* createResume and createInterview in the order of their ids, so with     *)
(* timestamps that do not decrease along the ids.  parsedContent is        *)
(* whatever text the column holds.                                         *)
StoredUsers == [k \in 1..MaxUsers |-> [id |-> k, email |-> k]]

StoredResumes ==
    UNION {{[k \in 1..n |->
                [id |-> k, userId |-> f[k].userId,
                 uploadedAt |-> f[k].uploadedAt,
                 parsedContent |-> f[k].parsedContent]] :
              f \in {g \in [1..n -> [userId : 1..MaxUsers,
                                      uploadedAt : StoredInstants,
                                      parsedContent :
                                         {NullText, ParsedJson, BrokenJson}]] :
                       \A a, b \in 1..n :
                           a < b => g[a].uploadedAt <= g[b].uploadedAt}} :
           n \in 0..MaxStoredResumes}

StoredInterviews ==
    UNION {{[k \in 1..n |->
                [id |-> k, userId |-> f[k].userId, resumeId |-> Null,
                 targetRole |-> "backend",
                 experienceLevel |-> "intermediate",
                 startedAt |-> f[k].startedAt, endedAt |-> Null,
                 status |-> "in_progress",
                 interviewerCharacter |-> "rook"]] :
              f \in {g \in [1..n -> [userId : 1..MaxUsers,
                                      startedAt : StoredInstants]] :
                       \A a, b \in 1..n :
                           a < b => g[a].startedAt <= g[b].startedAt}} :
           n \in 0..MaxStoredInterviews}

(* The two tables are read by different handlers, so they are explored    *)
(* apart: a database with resumes and no interview yet, and one with       *)
(* interviews that name no resume.                                         *)
ResumeReadInit ==
    /\ users = StoredUsers
    /\ resumes \in StoredResumes
    /\ interviews = <<>>
    /\ messages = <<>>
    /\ parseJobs = {}
    /\ pending = {}
    /\ now = 10
    /\ files = {}
    /\ served = <<>>

ResumeReadNext ==
    \/ \E actor \in 1..MaxUsers, fault \in ReadFaults :
         ListResumes(actor, fault)
    \/ \E actor \in 1..MaxUsers, id \in 1..(MaxStoredResumes + 1),
          fault \in ReadFaults :
         GetResume(actor, id, fault)

ResumeReadSpec == ResumeReadInit /\ [][ResumeReadNext]_vars

(* The greeting that createInterviewRoute stored with each interview; the *)
(* last interview may have lost the greeting to a failed write.            *)
StoredGreetings(rows, n) ==
    [k \in 1..n |->
        [id |-> k, interviewId |-> k, sender |-> "ai",
         content |-> Greeting(rows[k].interviewerCharacter,
                              rows[k].targetRole),
         sentAt |-> rows[k].startedAt]]

InterviewReadInit ==
    /\ users = StoredUsers
    /\ resumes = <<>>
    /\ interviews \in StoredInterviews
    /\ messages \in {StoredGreetings(interviews, n) :
                        n \in {Len(interviews), Len(interviews) - 1} \cap Nat}
    /\ parseJobs = {}
    /\ pending = {}
    /\ now = 10
    /\ files = {}
    /\ served = <<>>

DateParams == {Null, InvalidDate} \cup StoredInstants

InterviewReadNext ==
    \/ \E actor \in 1..MaxUsers, fault \in ReadFaults :
         ListInterviews(actor, fault)
    \/ \E actor \in 1..MaxUsers, id \in 1..(MaxStoredInterviews + 1),
          fault \in ReadFaults :
         GetInterview(actor, id, fault)
    \/ \E actor \in 1..MaxUsers, id \in 1..(MaxStoredInterviews + 1),
          fault \in ReadFaults, listFault \in ReadFaults :
         GetMessages(actor, id, fault, listFault)
    \/ \E actor \in 1..MaxUsers, id \in 1..(MaxStoredInterviews + 1),
          fault \in ReadFaults, exportFault \in ReadFaults :
         ExportMessages(actor, id, fault, exportFault)
    \/ \E k \in 1..MaxServed : SendFile(k)

InterviewReadSpec == InterviewReadInit /\ [][InterviewReadNext]_vars

(* The exports of interviews, two of them in flight within one millisecond *)
ExportNext ==
    \/ \E actor \in 1..MaxUsers, startDate \in DateParams,
          endDate \in DateParams, fault \in ReadFaults :
         ExportInterviews(actor, startDate, endDate, fault)
    \/ \E k \in 1..MaxExports : SendFile(k)

ExportSpec == InterviewReadInit /\ [][ExportNext]_vars

---------------------------------------------------------------------------
(* The text of an export file.  A text is the sequence of its characters;  *)
(* a run of characters other than the double quote, the comma and the line *)
(* feed counts as one character.                                           *)

Quote == "\""
Comma == ","
LineFeed == "\n"

(* The characters of a stored text: those of the texts that hold a special *)
(* character, one run for every other text                                 *)
Chars(text) ==
    CASE text = "" -> <<>>
      [] text = "\"" -> <<Quote>>
      [] text = "a,b" -> <<"a", Comma, "b">>
      [] text = "a\"b" -> <<"a", Quote, "b">>
      [] text = "a\nb" -> <<"a", LineFeed, "b">>
      [] text = "\"a,\"\n" -> <<Quote, "a", Comma, Quote, LineFeed>>
      [] OTHER -> <<text>>

(* String(value) of the value of a column: the digits of a number, the     *)
(* text of a timestamp, the text itself                                    *)
StringOf(column, value) ==
    IF column \in {"id", "userId", "resumeId", "interviewId"}
    THEN <<ToString(value)>>
    ELSE IF column \in {"startedAt", "endedAt", "sentAt"}
    THEN <<ToString(value[1]), ToString(value[2])>>
    ELSE Chars(value)

(* A value written between double quotes as it is *)
quotedValueUnescaped(chars) == <<Quote>> \o chars \o <<Quote>>

(* storage.ts:364: `"${String(value).replace(/"/g, '""')}"` *)
quotedValue(chars) ==
    LET RECURSIVE replace(_)
        replace(rest) ==
            IF rest = <<>> THEN <<>>
            ELSE (IF Head(rest) = Quote THEN <<Quote, Quote>>
                  ELSE <<Head(rest)>>) \o replace(Tail(rest))
    IN <<Quote>> \o replace(chars) \o <<Quote>>

(* Array.prototype.join *)
RECURSIVE join(_, _)
join(texts, separator) ==
    IF texts = <<>> THEN <<>>
    ELSE IF Len(texts) = 1 THEN texts[1]
    ELSE texts[1] \o <<separator>> \o join(Tail(texts), separator)

(* storage.ts:359-367, 406-412: the text of the file whose rows of values  *)
(* are content; its first row holds the names of the columns               *)
csvText(content) ==
    join([r \in 1..Len(content) |->
            IF r = 1
            THEN join([k \in 1..Len(content[1]) |-> <<content[1][k]>>],
                      Comma)
            ELSE join([k \in 1..Len(content[r]) |->
                         IF content[r][k].quoted
                         THEN quotedValue(StringOf(content[1][k],
                                                   content[r][k].value))
                         ELSE <<>>],
                      Comma)],
         LineFeed)

(* A database with interviews whose texts hold commas, double quotes and   *)
(* line feeds, some of them ended                                          *)
MaxCsvInterviews == 2

CsvTexts == {"backend", "", "\"", "a,b", "a\"b", "a\nb", "\"a,\"\n"}

CsvInterviews ==
    UNION {{[k \in 1..n |->
                [id |-> k, userId |-> 1, resumeId |-> Null,
                 targetRole |-> f[k].targetRole,
                 experienceLevel |-> "intermediate",
                 startedAt |-> 9,
                 endedAt |-> IF f[k].ended THEN 10 ELSE Null,
                 status |-> IF f[k].ended THEN "completed"
                            ELSE "in_progress",
                 interviewerCharacter |-> f[k].interviewerCharacter]] :
              f \in [1..n -> [targetRole : CsvTexts, ended : BOOLEAN,
                              interviewerCharacter : {"rook", "a,b"}]]} :
           n \in 1..MaxCsvInterviews}

CsvInit ==
    /\ users = StoredUsers
    /\ resumes = <<>>
    /\ interviews \in CsvInterviews
    /\ messages = StoredGreetings(interviews, Len(interviews))
    /\ parseJobs = {}
    /\ pending = {}
    /\ now = 10
    /\ files = {}
    /\ served = <<>>

CsvNext ==
    \/ \E actor \in 1..MaxUsers, fault \in ReadFaults :
         ExportInterviews(actor, Null, Null, fault)
    \/ \E k \in 1..MaxExports : SendFile(k)

CsvSpec == CsvInit /\ [][CsvNext]_vars

---------------------------------------------------------------------------
(* Two interviews in progress, one of each user, each with its greeting:   *)
(* the state after two createInterview requests.  From there the requests  *)
(* that end an interview and that post to one, several of them suspended   *)
(* on the completion call at once, with a storage that works.              *)
RelayMaxMessages == 6
RelayMaxPending == 2

RelayInterviews ==
    [k \in 1..2 |->
        [id |-> k, userId |-> k, resumeId |-> Null,
         targetRole |-> "backend", experienceLevel |-> "intermediate",
         startedAt |-> 0, endedAt |-> Null, status |-> "in_progress",
         interviewerCharacter |-> "rook"]]

RelayInit ==
    /\ users = StoredUsers
    /\ resumes = <<>>
    /\ interviews = RelayInterviews
    /\ messages = StoredGreetings(RelayInterviews, 2)
    /\ parseJobs = {}
    /\ pending = {}
    /\ now = 0
    /\ files = {}
    /\ served = <<>>

RelayNext ==
    \/ Tick
    \/ \E actor \in 1..MaxUsers, id \in 1..2, f \in EndFaults :
         EndInterview(actor, id, f.gf, f.uf)
    \/ \E actor \in 1..MaxUsers, id \in 1..2, body \in MessageBodies :
         PostStartWithin(RelayMaxMessages, RelayMaxPending, actor, id, body,
                         "ok", "ok", "ok", "ok")
    \/ \E p \in pending, result \in Completions :
         PostFinish(p, result, "ok")

RelaySpec == RelayInit /\ [][RelayNext]_vars

---------------------------------------------------------------------------
(* Properties *)

InterviewIds == 1..Len(interviews)

Terminal(interview) == interview.status # "in_progress"

(* C1: in every reachable state an in_progress interview has no endedAt,   *)
(* and an interview in any other status has an endedAt that is not before  *)
(* its startedAt.                                                          *)
EndedAtMatchesStatus ==
    \A i \in InterviewIds :
        /\ interviews[i].status = "in_progress" => interviews[i].endedAt = Null
        /\ Terminal(interviews[i]) =>
              /\ interviews[i].endedAt # Null
              /\ interviews[i].endedAt >= interviews[i].startedAt

(* An interview was ended a tick after it started, with messages stored *)
EndedLaterWitness ==
    \E i \in InterviewIds :
        /\ interviews[i].status = "completed"
        /\ interviews[i].endedAt > interviews[i].startedAt
        /\ MessagesOf(messages, i) # {}

(* C2: no step stores a message for an interview that is already           *)
(* completed or cancelled, whatever requests interleave.                   *)
NoMessageAfterEnd ==
    [][\A k \in (Len(messages) + 1)..Len(messages') :
          messages'[k].interviewId \in InterviewIds =>
              ~Terminal(interviews[messages'[k].interviewId])]_vars

(* C3: the status of an interview changes only from in_progress to         *)
(* completed or cancelled; once terminal it never changes.                 *)
TerminalStatusIsFinal ==
    [][\A i \in InterviewIds :
          /\ interviews'[i].status # interviews[i].status =>
                /\ interviews[i].status = "in_progress"
                /\ interviews'[i].status \in {"completed", "cancelled"}
          /\ Terminal(interviews[i]) =>
                interviews'[i].status = interviews[i].status]_vars

(* A completed interview whose owner can call the end route again: the     *)
(* clock has moved past its endedAt.                                       *)
CompletedWitness ==
    \E i \in InterviewIds :
        /\ interviews[i].status = "completed"
        /\ interviews[i].endedAt < now

(* C4: ending an interview that is already completed leaves its status and *)
(* its endedAt as they were.                                               *)
EndedAtWrittenOnce ==
    [][\A i \in InterviewIds :
          interviews[i].status = "completed" =>
              /\ interviews'[i].status = "completed"
              /\ interviews'[i].endedAt = interviews[i].endedAt]_vars

(* C5: in every interview that has messages, a message of sender ai is     *)
(* among those with the least sentAt (some listing by sentAt starts with   *)
(* an ai message).                                                         *)
FirstMessageIsAi ==
    \A i \in InterviewIds :
        MessagesOf(messages, i) # {} =>
            \E m \in MessagesOf(messages, i) :
                /\ m.sender = "ai"
                /\ \A n \in MessagesOf(messages, i) : m.sentAt <= n.sentAt

(* The response of POST /api/interviews with no storage fault *)
createInterviewResponse(actor, body) ==
    LET out == createInterviewRoute(actor, body, "ok", "ok", "ok", 0)
    IN [status |-> out.status, body |-> out.body]

(* C6: a createInterview request answered 201 returns an in_progress       *)
(* interview, leaves that interview with exactly one message, of sender ai *)
(* and with the persona and the role in its content, and starts no         *)
(* completion call.                                                        *)
CreateSeedsGreeting ==
    [][interviews' # interviews =>
       \A actor \in 1..MaxUsers, body \in InterviewBodies, f \in CreateFaults,
          later \in 0..1 :
          LET out == createInterviewRoute(actor, body, f.rf, f.cf, f.mf, later)
          IN (CreateInterview(actor, body, f.rf, f.cf, f.mf, later)
                /\ out.status = 201) =>
               /\ out.body.status = "in_progress"
               /\ out.body = interviews'[out.body.id]
               /\ Cardinality(MessagesOf(messages', out.body.id)) = 1
               /\ \A m \in MessagesOf(messages', out.body.id) :
                     /\ m.sender = "ai"
                     /\ Contains(m.content, body.interviewerCharacter)
                     /\ Contains(m.content, body.targetRole)
               /\ pending' = pending]_vars

(* An in_progress interview with its greeting as its only message *)
SeededWitness ==
    \E i \in InterviewIds :
        /\ interviews[i].status = "in_progress"
        /\ \E m \in MessagesOf(messages, i) :
              /\ MessagesOf(messages, i) = {m}
              /\ m.content = Greeting(interviews[i].interviewerCharacter,
                                      interviews[i].targetRole)

ResumeOwned(interview) ==
    interview.resumeId # Null =>
        /\ interview.resumeId \in 1..Len(resumes)
        /\ resumes[interview.resumeId].userId = interview.userId

ForeignResume(actor, resumeId) ==
    resumeId \in 1..Len(resumes) /\ resumes[resumeId].userId # actor

MissingResume(resumeId) ==
    resumeId > Len(resumes)

(* C7: every interview with a resumeId references a resume of its own      *)
(* user, and a createInterview request naming another user's resume        *)
(* stores no interview and no message.                                     *)
ResumeOfSameUser ==
    /\ \A i \in InterviewIds : ResumeOwned(interviews[i])
    /\ \A actor \in 1..Len(users), body \in InterviewBodies,
          f \in CreateFaults, later \in 0..1 :
          (insertInterviewSchema(body) /\ ForeignResume(actor, body.resumeId))
          => LET out == createInterviewRoute(actor, body, f.rf, f.cf, f.mf,
                                             later)
             IN out.interviews = interviews /\ out.messages = messages

(* An interview references a resume, and another user is registered who    *)
(* does not own that resume                                                *)
ResumeReferencedWitness ==
    \E i \in InterviewIds, actor \in 1..Len(users) :
        /\ interviews[i].resumeId # Null
        /\ ForeignResume(actor, interviews[i].resumeId)

(* C8: createInterview answers a resumeId of another user's resume         *)
(* differently from a resumeId that names no resume.                       *)
ResumeFailuresDistinct ==
    \A actor \in 1..Len(users) :
      \A foreign, missing \in InterviewBodies :
        (/\ insertInterviewSchema(foreign)
         /\ insertInterviewSchema(missing)
         /\ ForeignResume(actor, foreign.resumeId)
         /\ MissingResume(missing.resumeId)) =>
            createInterviewResponse(actor, foreign)
               # createInterviewResponse(actor, missing)

Threw == [kind |-> "throw"]

(* C9: when the completion call throws and the storage works, postMessage  *)
(* on an in_progress interview of the actor stores the user's content as   *)
(* a user message, then the apology text as an ai message, answers 201     *)
(* with the two, and changes no interview.                                 *)
FallbackOnThrow ==
    [][pending' # pending =>
       /\ \A actor \in 1..MaxUsers, id \in 1..MaxInterviews,
             body \in MessageBodies, hf \in ReadFaults, rf \in ReadFaults :
            (/\ PostStart(actor, id, body, "ok", "ok", hf, rf)
             /\ postMessageChecks(actor, id, "ok").status = 0
             /\ insertInterviewMessageSchema(body)) =>
               /\ Len(messages') = Len(messages) + 1
               /\ SubSeq(messages', 1, Len(messages)) = messages
               /\ messages'[Len(messages')].interviewId = id
               /\ messages'[Len(messages')].sender = "user"
               /\ messages'[Len(messages')].content = body.content
               /\ \E p \in pending' \ pending :
                     p.userMessage = messages'[Len(messages')]
               /\ interviews' = interviews
       /\ \A p \in pending :
            PostFinish(p, Threw, "ok") =>
               LET out == postMessageResume(p, Threw, "ok")
               IN /\ out.status = 201
                  /\ out.body.userMessage = p.userMessage
                  /\ out.body.userMessage \in MessagesOf(messages, p.interview.id)
                  /\ out.body.aiMessage = messages'[Len(messages')]
                  /\ Len(messages') = Len(messages) + 1
                  /\ SubSeq(messages', 1, Len(messages)) = messages
                  /\ out.body.aiMessage.interviewId = p.interview.id
                  /\ out.body.aiMessage.sender = "ai"
                  /\ out.body.aiMessage.content = ApologyText
                  /\ interviews' = interviews]_vars

(* A user message directly followed by the apology text *)
ApologyWitness ==
    \E k \in 1..(Len(messages) - 1) :
        /\ messages[k].sender = "user"
        /\ messages[k].content \in Contents
        /\ messages[k + 1].sender = "ai"
        /\ messages[k + 1].interviewId = messages[k].interviewId
        /\ messages[k + 1].content = ApologyText

(* The ways the completion call fails: it throws, it answers without a     *)
(* choice, it answers with an empty or a null content.                     *)
FailedCompletions ==
    {c \in Completions :
        \/ c.kind = "throw"
        \/ c.choices = <<>>
        \/ ~Truthy(c.choices[1].content)}

(* C10: whatever way the completion call fails, the ai reply postMessage   *)
(* stores is the one apology text.                                         *)
OneFallbackText ==
    [][pending' # pending =>
       \A p \in pending, result \in FailedCompletions :
          PostFinish(p, result, "ok") =>
              messages'[Len(messages')].content = ApologyText]_vars

UserTurns(i) ==
    {m \in MessagesOf(messages, i) : m.sender = "user"}

(* The ai messages of interview i other than its seeded greeting *)
AiReplies(i) ==
    {m \in MessagesOf(messages, i) :
        /\ m.sender = "ai"
        /\ m.content # Greeting(interviews[i].interviewerCharacter,
                                interviews[i].targetRole)}

(* C11: in every reachable state the user message of a request that is     *)
(* waiting for the completion call is already stored, and no interview     *)
(* has more ai replies (the greeting not counted) than user messages.      *)
RepliesFollowTurns ==
    /\ \A p \in pending :
          p.userMessage \in MessagesOf(messages, p.interview.id)
    /\ \A i \in InterviewIds :
          Cardinality(AiReplies(i)) <= Cardinality(UserTurns(i))

(* A user turn that no request will answer any more *)
UnansweredTurnWitness ==
    \E i \in InterviewIds :
        /\ UserTurns(i) # {}
        /\ AiReplies(i) = {}
        /\ pending = {}

(* C12: a postMessage request that passes the checks and stores its user   *)
(* message adds exactly that one user message and starts exactly one       *)
(* completion call; when the call has returned and the reply is stored,    *)
(* exactly one ai message was added to the same interview and the answer   *)
(* is 201 with the two messages; no second call is started.                *)
OneCallOneReply ==
    [][messages' # messages \/ pending' # pending =>
       /\ \A actor \in 1..MaxUsers, id \in 1..MaxInterviews,
             body \in MessageBodies, hf \in ReadFaults, rf \in ReadFaults :
            (/\ PostStart(actor, id, body, "ok", "ok", hf, rf)
             /\ postMessageChecks(actor, id, "ok").status = 0
             /\ insertInterviewMessageSchema(body)) =>
               /\ Cardinality(pending' \ pending) = 1
               /\ pending \subseteq pending'
               /\ Len(messages') = Len(messages) + 1
               /\ messages'[Len(messages')].sender = "user"
               /\ messages'[Len(messages')].interviewId = id
       /\ \A p \in pending, result \in Completions :
            PostFinish(p, result, "ok") =>
               LET out == postMessageResume(p, result, "ok")
               IN /\ pending' = pending \ {p}
                  /\ out.status = 201
                  /\ messages' = Append(messages, out.body.aiMessage)
                  /\ out.body.aiMessage.sender = "ai"
                  /\ out.body.aiMessage.interviewId = p.interview.id
                  /\ out.body.userMessage.sender = "user"
                  /\ out.body.userMessage.interviewId = p.interview.id
                  /\ out.body.userMessage \in MessagesOf(messages,
                                                        p.interview.id)]_vars

(* A user message answered by the text the completion service returned *)
TurnAnsweredWitness ==
    /\ pending = {}
    /\ \E k \in 1..(Len(messages) - 1) :
          /\ messages[k].sender = "user"
          /\ messages[k + 1].sender = "ai"
          /\ messages[k + 1].interviewId = messages[k].interviewId
          /\ messages[k + 1].content \in Replies

(* C14: every step leaves the rows of the message table as they are and    *)
(* at most adds rows after them: no message is changed or removed.         *)
MessageLogAppendOnly ==
    [][/\ Len(messages') >= Len(messages)
       /\ SubSeq(messages', 1, Len(messages)) = messages]_vars

(* An interview whose log holds the greeting, a user turn and a reply *)
LogGrownWitness ==
    \E i \in InterviewIds :
        /\ Cardinality(MessagesOf(messages, i)) >= 3
        /\ UserTurns(i) # {}
        /\ AiReplies(i) # {}

(* C15: the end route does not answer with a success status when its       *)
(* status UPDATE, or the re-fetch after it, fails in the storage layer.    *)
WriteFailureSurfaced ==
    \A actor \in 1..Len(users), id \in InterviewIds :
        interviews[id].userId = actor =>
            \A uf \in WriteFaults \ {"ok"} :
                endInterviewRoute(actor, id, "ok", uf).status >= 400

(* C13: a postMessage request that waits for the completion call is       *)
(* eventually answered, also when the completion service never returns.    *)
CompletionCallBounded ==
    (pending # {}) ~> (pending = {})

(* The interviews of owner *)
InterviewsOf(owner) ==
    {interviews[i] : i \in {j \in InterviewIds : interviews[j].userId = owner}}

(* C16: the listing of an owner's interviews holds each interview of that  *)
(* owner once and no other, the later startedAt first.                     *)
ListsOwnInterviews ==
    \A owner \in 1..Len(users) :
        /\ getInterviewsByUser(owner, "ok") # {}
        /\ \A h \in getInterviewsByUser(owner, "ok") :
              /\ {h[k] : k \in 1..Len(h)} = InterviewsOf(owner)
              /\ Len(h) = Cardinality(InterviewsOf(owner))
              /\ \A a, b \in 1..Len(h) :
                    a < b => h[a].startedAt >= h[b].startedAt

(* A listing was served with two interviews of different startedAt while   *)
(* another user has an interview too                                       *)
InterviewsListedWitness ==
    \E k \in 1..Len(served) :
        /\ served[k].route = "GET /api/interviews"
        /\ Len(served[k].body) >= 2
        /\ served[k].body[1].startedAt > served[k].body[2].startedAt
        /\ \E i \in InterviewIds :
              interviews[i].userId # served[k].body[1].userId

(* C17: the listing of a user's resumes has uploadedAt non-decreasing      *)
(* along the list.                                                         *)
ResumesListedOldestFirst ==
    \A owner \in 1..Len(users) :
        \A h \in getResumesByUser(owner, "ok") :
            \A a, b \in 1..Len(h) : a < b => h[a].uploadedAt <= h[b].uploadedAt

(* C17 as amended: the listing of a user's resumes holds each resume of    *)
(* that user once, with uploadedAt non-increasing along the list.          *)
ResumesListedNewestFirst ==
    \A owner \in 1..Len(users) :
        /\ getResumesByUser(owner, "ok") # {}
        /\ \A h \in getResumesByUser(owner, "ok") :
              /\ {h[k].id : k \in 1..Len(h)}
                    = {j \in 1..Len(resumes) : resumes[j].userId = owner}
              /\ \A a, b \in 1..Len(h) :
                    a < b => /\ h[a].id # h[b].id
                             /\ h[a].uploadedAt >= h[b].uploadedAt

(* A listing was served with two resumes of different uploadedAt *)
ResumesListedWitness ==
    \E k \in 1..Len(served) :
        /\ served[k].route = "GET /api/resumes"
        /\ Len(served[k].body) >= 2
        /\ served[k].body[1].uploadedAt # served[k].body[2].uploadedAt

(* C18: a resume whose stored parsedContent is no JSON is read without a   *)
(* failure: getResume returns the row with the stored text, its owner's    *)
(* GET is answered 200, every listing of the owner's resumes holds the     *)
(* row with the stored text, and the reads give the same after any read.   *)
BrokenContentReadable ==
    [][\A id \in 1..Len(resumes) :
          resumes[id].parsedContent = BrokenJson =>
             /\ getResume(id, "ok") = <<resumes[id]>>
             /\ getResumeRoute(resumes[id].userId, id, "ok")
                   = [status |-> 200, body |-> resumes[id]]
             /\ getResumesByUser(resumes[id].userId, "ok") # {}
             /\ \A h \in getResumesByUser(resumes[id].userId, "ok") :
                   \E k \in 1..Len(h) : h[k] = resumes[id]
             /\ getResume(id, "ok")' = getResume(id, "ok")
             /\ getResumesByUser(resumes[id].userId, "ok")'
                   = getResumesByUser(resumes[id].userId, "ok")]_vars

(* A resume with a parsedContent that is no JSON was served to its owner   *)
BrokenContentServedWitness ==
    \E k \in 1..Len(served) :
        /\ served[k].route = "GET /api/resumes/:id"
        /\ served[k].status = 200
        /\ served[k].body.parsedContent = BrokenJson

(* The interviews an export with these filters is to hold (userId 0, a     *)
(* date Null: no such filter)                                              *)
Matching(userId, startDate, endDate) ==
    {i \in InterviewIds :
        /\ userId # 0 => interviews[i].userId = userId
        /\ startDate # Null => interviews[i].startedAt >= startDate
        /\ endDate # Null => interviews[i].startedAt <= endDate}

(* C19: an export request with readable dates and a working storage is     *)
(* answered 200; when no interview matches, with the message "No           *)
(* interviews found matching the criteria" and no file written; when one   *)
(* matches, with the path of a file that is then in the exports directory. *)
EmptyExportIsMessage ==
    \A actor \in 1..Len(users) :
      \A startDate, endDate \in {Null} \cup StoredInstants :
        /\ exportInterviewsRoute(actor, startDate, endDate, "ok") # {}
        /\ \A r \in exportInterviewsRoute(actor, startDate, endDate, "ok") :
              /\ r.status = 200
              /\ IF Matching(actor, startDate, endDate) = {}
                 THEN /\ r.body = Message(NoInterviewsText)
                      /\ r.files = files
                 ELSE /\ DOMAIN r.body = {"download"}
                      /\ \E f \in r.files : f.path = r.body.download

(* An export was answered with the message although the table has rows *)
EmptyExportWitness ==
    /\ interviews # <<>>
    /\ files = {}
    /\ \E k \in 1..Len(served) :
          /\ served[k].route = "GET /api/export/interviews"
          /\ served[k].status = 200
          /\ served[k].body = Message(NoInterviewsText)

(* C20: for every combination of given and missing filters, the file that  *)
(* exportInterviewsToCSV writes holds the column names as its first row    *)
(* and then one row for each interview that matches all given filters      *)
(* (the date bounds included), and for no other, the later startedAt       *)
(* first.                                                                  *)
ExportMatchesFilters ==
    \A userId \in 0..Len(users) :
      \A startDate, endDate \in {Null} \cup StoredInstants :
        LET M == Matching(userId, startDate, endDate)
            outs == exportInterviewsToCSV(
                        [userId |-> userId, startDate |-> startDate,
                         endDate |-> endDate], "ok")
        IN /\ outs # {}
           /\ \A out \in outs :
                 IF M = {} THEN out.kind = "message"
                 ELSE /\ out.kind = "path"
                      /\ \E f \in out.files :
                            /\ f.path = out.value
                            /\ Len(f.content) = 1 + Cardinality(M)
                            /\ f.content[1] = Columns
                            /\ {f.content[k][1].value :
                                   k \in 2..Len(f.content)} = M
                            /\ \A k \in 2..Len(f.content) :
                                  f.content[k] = objectToCSVRow(
                                      interviews[f.content[k][1].value])
                            /\ \A a, b \in 2..Len(f.content) :
                                  a < b =>
                                    interviews[f.content[a][1].value].startedAt
                                    >= interviews[f.content[b][1].value].startedAt

(* A file was written with two of the three stored interviews *)
FilteredExportWitness ==
    /\ Len(interviews) >= 3
    /\ \E f \in files :
          /\ Len(f.content) = 3
          /\ f.content[2][6].value # f.content[3][6].value

(* C22: no two messages of one interview have the same sentAt.             *)
DistinctSentAt ==
    \A a, b \in 1..Len(messages) :
        (a # b /\ messages[a].interviewId = messages[b].interviewId)
            => messages[a].sentAt # messages[b].sentAt

(* C24: the history a postMessage request hands to the completion service  *)
(* has one turn for each message the interview then has, ends with the     *)
(* user message the request has just stored, and alternates between        *)
(* assistant and user turns.                                               *)
HistoryAlternates ==
    [][\A p \in pending' \ pending :
          LET h == p.request.messages
          IN /\ Len(h) = Cardinality(MessagesOf(messages', p.interview.id))
             /\ h # <<>>
             /\ h[Len(h)] = [role |-> "user",
                             content |-> p.userMessage.content]
             /\ \A k \in 1..(Len(h) - 1) : h[k].role # h[k + 1].role]_vars

(* C25: every stored interview has its greeting among its messages (so a   *)
(* createInterview request that failed at the greeting left no interview). *)
EveryInterviewSeeded ==
    \A i \in InterviewIds :
        \E m \in MessagesOf(messages, i) :
            /\ m.sender = "ai"
            /\ m.content = Greeting(interviews[i].interviewerCharacter,
                                    interviews[i].targetRole)

(* C26: postMessage answers 404 when the interview is not there, else 403  *)
(* when the actor is not its owner, else 400 when its status is not        *)
(* in_progress; in each of the three cases it stores no message and makes  *)
(* no completion call (and the route has no write to an interview).        *)
PostChecksRejectFirst ==
    \A actor \in 1..Len(users), id \in 1..(MaxInterviews + 1),
       body \in MessageBodies, f \in PostFaults :
        \A history \in historiesAt(actor, id, body, f.gf, f.mf, f.hf) :
          LET out == postMessageRoute(actor, id, body, f.gf, f.mf, history,
                                      f.rf)
              rejected == /\ out.messages = messages
                          /\ out.call = undefined
          IN /\ id \notin InterviewIds => out.status = 404 /\ rejected
             /\ (id \in InterviewIds /\ f.gf = "ok") =>
                   IF interviews[id].userId # actor
                   THEN out.status = 403 /\ rejected
                   ELSE IF interviews[id].status # "in_progress"
                   THEN out.status = 400 /\ rejected
                   ELSE out.status \notin {403, 404}

(* A completed interview with messages, and a registered user who does not *)
(* own it: each of the three checks can fail                               *)
RejectablePostWitness ==
    \E i \in InterviewIds, actor \in 1..Len(users) :
        /\ interviews[i].status = "completed"
        /\ interviews[i].userId # actor
        /\ UserTurns(i) # {}

(* C27: endInterview answers 403 to a user who does not own the interview  *)
(* and 404 for an id that names no interview, and in both cases leaves     *)
(* every interview as it is; only the owner's call is answered 200.        *)
OnlyOwnerEnds ==
    \A actor \in 1..Len(users), id \in 1..(MaxInterviews + 1),
       f \in EndFaults :
        LET out == endInterviewRoute(actor, id, f.gf, f.uf)
        IN /\ id \notin InterviewIds =>
                 out.status = 404 /\ out.interviews = interviews
           /\ (id \in InterviewIds /\ interviews[id].userId # actor) =>
                 /\ out.status \in {403, 404}
                 /\ f.gf = "ok" => out.status = 403
                 /\ out.interviews = interviews
           /\ out.status = 200 =>
                 id \in InterviewIds /\ interviews[id].userId = actor

(* An in_progress interview started before now, and a registered user who  *)
(* does not own it                                                         *)
ForeignEndWitness ==
    \E i \in InterviewIds, actor \in 1..Len(users) :
        /\ interviews[i].status = "in_progress"
        /\ interviews[i].userId # actor
        /\ interviews[i].startedAt < now

(* C28: a read answers a session of user u with records of u only: the    *)
(* GET of a resume, of an interview and of an interview's messages and the *)
(* export of an interview's messages answer 403 for an existing record of  *)
(* another user and 200 with the record of u otherwise, and every row of   *)
(* a file that the interview export has sent to u is an interview of u.    *)
ReadsReturnOwnRecords ==
    /\ \A actor \in 1..Len(users) :
          /\ \A id \in 1..Len(resumes) :
                LET r == getResumeRoute(actor, id, "ok")
                IN IF resumes[id].userId = actor
                   THEN r.status = 200 /\ r.body.userId = actor
                   ELSE r.status = 403
          /\ \A id \in 1..Len(interviews) :
                /\ LET r == getInterviewRoute(actor, id, "ok")
                   IN IF interviews[id].userId = actor
                      THEN r.status = 200 /\ r.body.userId = actor
                      ELSE r.status = 403
                /\ \A r \in getMessagesRoute(actor, id, "ok", "ok") :
                      IF interviews[id].userId = actor
                      THEN /\ r.status = 200
                           /\ \A k \in 1..Len(r.body) :
                                 r.body[k].interviewId = id
                      ELSE r.status = 403
                /\ \A r \in exportMessagesRoute(actor, id, "ok", "ok") :
                      IF interviews[id].userId = actor
                      THEN r.status = 200
                      ELSE r.status = 403 /\ r.files = files
    /\ \A k \in 1..Len(served) :
          (/\ served[k].route = "GET /api/export/interviews"
           /\ served[k].status = 200
           /\ "file" \in DOMAIN served[k].body)
          => \A row \in 2..Len(served[k].body.file) :
                served[k].body.file[row][2].value = served[k].actor

(* The ids a table holds *)
IdsOf(table) == {table[k].id : k \in 1..Len(table)}

ReferencesResolve ==
    /\ \A k \in 1..Len(resumes) : resumes[k].userId \in IdsOf(users)
    /\ \A k \in 1..Len(interviews) :
          /\ interviews[k].userId \in IdsOf(users)
          /\ interviews[k].resumeId # Null =>
                interviews[k].resumeId \in IdsOf(resumes)
    /\ \A k \in 1..Len(messages) :
          messages[k].interviewId \in IdsOf(interviews)
    /\ \A table \in {users, resumes, interviews, messages} :
          \A a, b \in 1..Len(table) : a # b => table[a].id # table[b].id

IdsNotReused(table, table2) ==
    /\ Len(table2) >= Len(table)
    /\ \A k \in 1..Len(table) : table2[k].id = table[k].id
    /\ \A k \in (Len(table) + 1)..Len(table2) :
          \A j \in 1..Len(table) : table2[k].id > table[j].id

(* C29: in every reachable state the userId of each resume and of each    *)
(* interview is the id of a stored user, the resumeId of an interview that *)
(* has one is the id of a stored resume, the interviewId of each message   *)
(* is the id of a stored interview, no two rows of a table share an id,    *)
(* and in every step each row keeps its id and a new row gets an id        *)
(* greater than all ids of its table.                                      *)
ReferentialIntegrity ==
    /\ []ReferencesResolve
    /\ [][/\ IdsNotReused(users, users')
          /\ IdsNotReused(resumes, resumes')
          /\ IdsNotReused(interviews, interviews')
          /\ IdsNotReused(messages, messages')]_vars

(* Both users are registered, and an interview with messages names a       *)
(* resume                                                                  *)
AllTablesLinkedWitness ==
    /\ Len(users) = 2
    /\ Len(messages) >= 2
    /\ \E k \in 1..Len(interviews) : interviews[k].resumeId # Null

(* C30: a request that ends an interview leaves every message as it was,   *)
(* changes no interview but the one it names and of that one no field but  *)
(* status and endedAt; a step of a postMessage request changes no field of *)
(* any interview.                                                          *)
EndChangesOnlyStatus ==
    [][/\ \A actor \in 1..MaxUsers, id \in 1..2, f \in EndFaults :
            EndInterview(actor, id, f.gf, f.uf) =>
              /\ messages' = messages
              /\ Len(interviews') = Len(interviews)
              /\ \A k \in 1..Len(interviews) :
                    IF k = id
                    THEN [interviews'[k] EXCEPT
                            !.status = interviews[k].status,
                            !.endedAt = interviews[k].endedAt] = interviews[k]
                    ELSE interviews'[k] = interviews[k]
       /\ (messages' # messages \/ pending' # pending) =>
             interviews' = interviews]_vars

(* One interview was ended beside an interview that is in progress, and a *)
(* message was posted                                                      *)
EndedBesideOpenWitness ==
    /\ \E a, b \in 1..Len(interviews) :
          /\ interviews[a].status = "completed"
          /\ interviews[a].endedAt = 1
          /\ interviews[b].status = "in_progress"
    /\ \E k \in 1..Len(messages) : messages[k].sender = "user"

(* The requests to interview i that are suspended on the completion call *)
PendingOf(i) == {p \in pending : p.interview.id = i}

(* C23: however the postMessage requests to an interview interleave, each  *)
(* request that passed the checks has stored its own user message, each    *)
(* request that resumed has stored one ai reply (the user messages of an   *)
(* interview are as many as its replies and its suspended requests), a     *)
(* step appends one row and changes no stored row, and every listing of    *)
(* getInterviewMessages holds each message of the interview once, in       *)
(* non-decreasing order of sentAt.                                         *)
ConcurrentPostsKeepTurns ==
    /\ [](\A i \in 1..Len(interviews) :
            /\ Cardinality(UserTurns(i))
                  = Cardinality(AiReplies(i)) + Cardinality(PendingOf(i))
            /\ \A p \in PendingOf(i) : p.userMessage \in UserTurns(i)
            /\ getInterviewMessages(messages, i, "ok") # {}
            /\ \A h \in getInterviewMessages(messages, i, "ok") :
                  /\ Len(h) = Cardinality(MessagesOf(messages, i))
                  /\ {h[k] : k \in 1..Len(h)} = MessagesOf(messages, i)
                  /\ \A a, b \in 1..Len(h) :
                        a < b => h[a].sentAt <= h[b].sentAt)
    /\ [][(messages' # messages \/ pending' # pending) =>
            /\ Len(messages') = Len(messages) + 1
            /\ SubSeq(messages', 1, Len(messages)) = messages
            /\ messages'[Len(messages')].id = Len(messages')
            /\ IF pending' \ pending # {}
               THEN \E p \in pending' \ pending :
                       /\ pending' = pending \cup {p}
                       /\ p.userMessage = messages'[Len(messages')]
                       /\ p.userMessage.sender = "user"
               ELSE \E p \in pending \ pending' :
                       /\ pending' = pending \ {p}
                       /\ messages'[Len(messages')].sender = "ai"
                       /\ messages'[Len(messages')].interviewId
                             = p.interview.id]_vars

(* The reply to one request is stored after the user message of a later    *)
(* request that is still suspended                                         *)
ReplyAfterLaterTurnWitness ==
    \E p \in pending :
       /\ \E c \in 1..Len(messages) :
             /\ c > p.userMessage.id
             /\ messages[c].sender = "ai"
             /\ messages[c].interviewId = p.interview.id
       /\ \E a \in 1..Len(messages) :
             /\ a < p.userMessage.id
             /\ messages[a].sender = "user"
             /\ messages[a].interviewId = p.interview.id

(* A reader of delimited text: a field that starts with a double quote    *)
(* runs to the next double quote that is not doubled, and a doubled one    *)
(* stands for one; a comma ends a field and a line feed a record outside   *)
(* of double quotes, that is after an even number of double quotes.  Each  *)
(* field is read with the mark of its quoting.                             *)
Separators(text) ==
    {i \in 1..Len(text) :
        /\ text[i] \in {Comma, LineFeed}
        /\ Cardinality({j \in 1..(i - 1) : text[j] = Quote}) % 2 = 0}

(* The numbers of a set in increasing order *)
Sorted(S) ==
    [n \in 1..Cardinality(S) |->
        CHOOSE p \in S : Cardinality({q \in S : q < p}) = n - 1]

RECURSIVE unescape(_)
unescape(chars) ==
    IF chars = <<>> THEN <<>>
    ELSE IF Head(chars) = Quote /\ Len(chars) >= 2 /\ chars[2] = Quote
    THEN <<Quote>> \o unescape(Tail(Tail(chars)))
    ELSE <<Head(chars)>> \o unescape(Tail(chars))

readField(raw) ==
    IF raw # <<>> /\ raw[1] = Quote
    THEN [quoted |-> TRUE, value |-> unescape(SubSeq(raw, 2, Len(raw) - 1))]
    ELSE [quoted |-> FALSE, value |-> raw]

readRecord(text, separators, first, last) ==
    LET cuts == Sorted({i \in separators : first <= i /\ i <= last}
                       \cup {first - 1, last + 1})
    IN [k \in 1..(Len(cuts) - 1) |->
          readField(SubSeq(text, cuts[k] + 1, cuts[k + 1] - 1))]

parseCsv(text) ==
    LET separators == Separators(text)
        ends == Sorted({i \in separators : text[i] = LineFeed}
                       \cup {Len(text) + 1})
    IN [r \in 1..Len(ends) |->
          readRecord(text, separators,
                     IF r = 1 THEN 1 ELSE ends[r - 1] + 1, ends[r] - 1)]

(* C21: the text of every file that the interview export has written,     *)
(* read back as delimited text, has the names of the columns as its first  *)
(* record and then one record for each exported interview, and each field  *)
(* of that record is empty and unquoted where the interview's value is     *)
(* null and holds the characters of the value otherwise, commas, double    *)
(* quotes and line feeds included.                                         *)
ExportRoundTrip ==
    \A f \in files :
       LET records == parseCsv(csvText(f.content))
       IN /\ Len(records) = Len(f.content)
          /\ records[1] = [k \in 1..Len(Columns) |->
                              [quoted |-> FALSE, value |-> <<Columns[k]>>]]
          /\ \A r \in 2..Len(records) :
                LET interview == interviews[f.content[r][1].value]
                IN records[r] =
                     [k \in 1..Len(Columns) |->
                        IF Columns[k] \in {"resumeId", "endedAt"}
                           /\ interview[Columns[k]] = Null
                        THEN [quoted |-> FALSE, value |-> <<>>]
                        ELSE [quoted |-> TRUE,
                              value |->
                                 IF Columns[k] \in {"startedAt", "endedAt"}
                                 THEN StringOf(Columns[k],
                                               toISOString(
                                                   interview[Columns[k]]))
                                 ELSE StringOf(Columns[k],
                                               interview[Columns[k]])]]

(* A file was written with an interview whose target role holds a double   *)
(* quote, a comma and a line feed, and with an interview that has no       *)
(* endedAt                                                                 *)
SpecialCharactersExportedWitness ==
    \E f \in files :
       /\ \E r \in 2..Len(f.content) :
             f.content[r][4].value = "\"a,\"\n"
       /\ \E r \in 2..Len(f.content) : ~f.content[r][7].quoted

=============================================================================
